---- MODULE Spec2Model ----
(***************************************************************************)
(* A model of sphinxcontrib/doxylink/doxylink.py: the tag file parser      *)
(* (parse_tag_file), the SymbolMap resolver with its FunctionList overload *)
(* sets, the legacy find_url scan, and the role factory create_role with   *)
(* the per-tag-file cache kept on app.env.                                 *)
(*                                                                         *)
(* Representation of Python values:                                        *)
(*   - a qualified name ("NS::Foo") is the sequence of its components      *)
(*     (<<"NS", "Foo">>); s.split('::') reads the components, '+' with     *)
(*     '::' in between is \o;                                              *)
(*   - an argument-list text ("( int )") is the sequence of its tokens;    *)
(*   - a reference text ("Foo::bar(int)") is [symbol, args];               *)
(*   - a dict is the sequence of its <<key, value>> items in insertion     *)
(*     order (Python dicts iterate in insertion order, and assigning to an *)
(*     existing key keeps the key's position);                             *)
(*   - an exception is a result record whose status names it.              *)
(***************************************************************************)
EXTENDS Integers, Sequences, FiniteSets, TLC

VARIABLES
    files,    \* the file system: tag file path -> [status, mtime]
    cache,    \* app.env.doxylink_cache (absent until first created)
    roles,    \* roles registered with app.add_role: name -> closure of create_role
    config,   \* app.config: add_function_parentheses
    outcome,  \* what the last call of create_role / find_doxygen_link did
    doc,      \* an XML tag document handed to SymbolMap(...)
    symmap,   \* the SymbolMap constructed from doc
    query,    \* the last item asked of symmap
    result    \* what symmap[query] returned or raised

vars == <<files, cache, roles, config, outcome, doc, symmap, query, result>>

----------------------------------------------------------------------------
(* Bounds of the model.                                                    *)

\* number of records (compounds and members together) of a generated tag document
MaxRecords == 3
\* largest modification time a tag file reaches
MaxMtime == 2

----------------------------------------------------------------------------
(* Python values.                                                          *)

Min(a, b) == IF a <= b THEN a ELSE b

Reverse(s) == [i \in 1..Len(s) |-> s[Len(s) + 1 - i]]

\* Entry = namedtuple('Entry', ['kind', 'file'])
Entry(kind, file) == [type |-> "Entry", kind |-> kind, file |-> file, arglist |-> <<>>]

\* FunctionList.__init__: kind 'function_list' and an empty _arglist dict
FunctionList == [type |-> "FunctionList", kind |-> "function_list", file |-> "", arglist |-> <<>>]

NoValue == [type |-> "None", kind |-> "", file |-> "", arglist |-> <<>>]

Ok(value) == [status |-> "ok", value |-> value, msg |-> ""]

Raise(error, msg) == [status |-> error, value |-> NoValue, msg |-> msg]

\* dict operations on a sequence of <<key, value>> items
DictKeys(d) == {d[i][1] : i \in DOMAIN d}

DictHas(d, k) == \E i \in DOMAIN d : d[i][1] = k

DictGet(d, k) == d[CHOOSE i \in DOMAIN d : d[i][1] = k][2]

DictSet(d, k, v) ==
    IF DictHas(d, k)
    THEN [i \in DOMAIN d |-> IF d[i][1] = k THEN <<k, v>> ELSE d[i]]
    ELSE Append(d, <<k, v>>)

\* join(*args) for three strings
join(a, b, c) == a \o b \o c

\* a reference text: a qualified symbol followed by an argument-list text
Text(symbol, args) == [symbol |-> symbol, args |-> args]

----------------------------------------------------------------------------
(* parsing.normalise: split a reference into its symbol and its normalised *)
(* argument list.  Whitespace is formatting; a text without parentheses    *)
(* has the empty argument list; unbalanced parentheses do not parse.       *)

Whitespace == {" "}

StripWhitespace(tokens) == SelectSeq(tokens, LAMBDA t : t \notin Whitespace)

WellFormedArglist(tokens) ==
    LET s == StripWhitespace(tokens)
    IN  /\ Len(s) >= 2
        /\ s[1] = "("
        /\ s[Len(s)] = ")"
        /\ \A i \in 2..(Len(s) - 1) : s[i] \notin {"(", ")"}

normalise(text) ==
    IF text.args = <<>>
    THEN [ok |-> TRUE, symbol |-> text.symbol, arglist |-> <<>>]
    ELSE IF WellFormedArglist(text.args)
         THEN [ok |-> TRUE, symbol |-> text.symbol, arglist |-> StripWhitespace(text.args)]
         ELSE [ok |-> FALSE, symbol |-> text.symbol, arglist |-> <<>>]

----------------------------------------------------------------------------
(* class FunctionList                                                      *)

\* FunctionList.__getitem__ taking the last entry, not the first, when no
\* argument list is asked for
FunctionList_getitem_last(fl, arglist) ==
    IF arglist # <<>>
    THEN IF DictHas(fl.arglist, arglist)
         THEN Ok(Entry("function", DictGet(fl.arglist, arglist)))
         ELSE Raise("LookupError", "Argument list match not found")
    ELSE Ok(Entry("function", fl.arglist[Len(fl.arglist)][2]))

\* FunctionList.__getitem__
FunctionList_getitem(fl, arglist) ==
    IF arglist # <<>>
    THEN IF DictHas(fl.arglist, arglist)
         THEN Ok(Entry("function", DictGet(fl.arglist, arglist)))
         ELSE Raise("LookupError", "Argument list match not found")
    ELSE Ok(Entry("function", fl.arglist[1][2]))

\* FunctionList.add_overload
add_overload(fl, arglist, file) == [fl EXCEPT !.arglist = DictSet(@, arglist, file)]

----------------------------------------------------------------------------
(* parse_tag_file                                                          *)

\* the compound kinds parse_tag_file keeps
CompoundKinds == {"namespace", "class", "struct", "file", "define", "group"}

\* member kinds that are never overloads, whatever their <arglist>
NonOverloadKinds == {"variable", "typedef", "enumeration"}

\* the file names of the model on which os.path.splitext finds no extension
FilenamesWithoutExtension == {"main_8cpp"}

SplitextEmpty(filename) == filename \in FilenamesWithoutExtension

\* the hack for <compound kind="file"> entries without a file extension
CompoundFilename(compound) ==
    IF compound.kind = "file" /\ SplitextEmpty(compound.filename)
    THEN compound.filename \o ".html"
    ELSE compound.filename

\* the destination of a member: its <anchorfile>, else the compound's, '#', its <anchor>
MemberLink(compound_filename, member) ==
    join(IF member.anchorfile # "" THEN member.anchorfile ELSE compound_filename,
         "#", member.anchor)

\* one iteration of 'for member in compound.findall("member")'
MemberStep(acc, compound_name, compound_filename, member) ==
    LET member_symbol == compound_name \o member.name
        link == MemberLink(compound_filename, member)
    IN  IF member.arglist # <<>> /\ member.kind \notin NonOverloadKinds
        THEN [acc EXCEPT !.function_list =
                 Append(@, [symbol |-> member_symbol, arglist |-> member.arglist,
                            kind |-> member.kind, link |-> link])]
        ELSE [acc EXCEPT !.mapping = DictSet(@, member_symbol, Entry(member.kind, link))]

RECURSIVE MembersLoop(_, _, _, _)
MembersLoop(acc, compound_name, compound_filename, members) ==
    IF members = <<>>
    THEN acc
    ELSE MembersLoop(MemberStep(acc, compound_name, compound_filename, Head(members)),
                     compound_name, compound_filename, Tail(members))

\* one iteration of 'for compound in doc.findall("./compound")'
CompoundStep(acc, compound) ==
    IF compound.kind \notin CompoundKinds
    THEN acc
    ELSE LET compound_filename == CompoundFilename(compound)
             registered == [acc EXCEPT !.mapping =
                               DictSet(@, compound.name, Entry(compound.kind, compound_filename))]
         IN  MembersLoop(registered, compound.name, compound_filename, compound.members)

RECURSIVE CompoundsLoop(_, _)
CompoundsLoop(acc, compounds) ==
    IF compounds = <<>>
    THEN acc
    ELSE CompoundsLoop(CompoundStep(acc, Head(compounds)), Tail(compounds))

\* the iteration with a FunctionList created only for a symbol the mapping does not
\* hold yet: an Entry registered under the symbol is kept
OverloadStepKeepEntry(mapping, f) ==
    LET n == normalise(Text(f.symbol, f.arglist))
    IN  IF ~n.ok
        THEN mapping
        ELSE IF ~DictHas(mapping, f.symbol)
             THEN DictSet(mapping, f.symbol, add_overload(FunctionList, n.arglist, f.link))
             ELSE IF DictGet(mapping, f.symbol).type = "FunctionList"
                  THEN DictSet(mapping, f.symbol,
                               add_overload(DictGet(mapping, f.symbol), n.arglist, f.link))
                  ELSE mapping

\* one iteration of 'for member_symbol, arglist, kind, anchor_link in function_list'
OverloadStep(mapping, f) ==
    LET n == normalise(Text(f.symbol, f.arglist))
    IN  IF ~n.ok
        THEN mapping
        ELSE IF DictHas(mapping, f.symbol) /\ DictGet(mapping, f.symbol).type = "FunctionList"
             THEN DictSet(mapping, f.symbol,
                          add_overload(DictGet(mapping, f.symbol), n.arglist, f.link))
             ELSE DictSet(mapping, f.symbol, add_overload(FunctionList, n.arglist, f.link))

RECURSIVE OverloadsLoop(_, _)
OverloadsLoop(mapping, function_list) ==
    IF function_list = <<>>
    THEN mapping
    ELSE OverloadsLoop(OverloadStep(mapping, Head(function_list)), Tail(function_list))

parse_tag_file(d) ==
    LET first == CompoundsLoop([mapping |-> <<>>, function_list |-> <<>>], d)
    IN  OverloadsLoop(first.mapping, first.function_list)

----------------------------------------------------------------------------
(* find_url_piecewise and class SymbolMap                                  *)

\* the comparison with the lists cut one short of the shorter length
PiecewiseMatchShortened(symbol, item) ==
    LET split_symbol == Reverse(symbol)
        split_item == Reverse(item)
        min_length == Min(Len(split_symbol), Len(split_item)) - 1
    IN  SubSeq(split_symbol, 1, min_length) = SubSeq(split_item, 1, min_length)

\* the comparison without the two reverse() calls: leading components, not trailing
PiecewiseMatchForward(symbol, item) ==
    LET min_length == Min(Len(symbol), Len(item))
    IN  SubSeq(symbol, 1, min_length) = SubSeq(item, 1, min_length)

\* the comparison of the loop body of find_url_piecewise
PiecewiseMatch(symbol, item) ==
    LET split_symbol == Reverse(symbol)
        split_item == Reverse(item)
        min_length == Min(Len(split_symbol), Len(split_item))
    IN  SubSeq(split_symbol, 1, min_length) = SubSeq(split_item, 1, min_length)

find_url_piecewise(mapping, symbol) ==
    SelectSeq(mapping, LAMBDA p : PiecewiseMatch(symbol, p[1]))

\* the components of the model that contain a '<'
TemplateComponents == {"Ab<T>"}

\* '<' in s
HasTemplate(name) == \E i \in DOMAIN name : name[i] \in TemplateComponents

RECURSIVE StrLen(_)
\* len(s) of the name joined with '::'
StrLen(name) ==
    IF name = <<>> THEN 0
    ELSE IF Len(name) = 1 THEN Len(name[1])
    ELSE Len(name[1]) + Len("::") + StrLen(Tail(name))

\* min(d.keys(), key=len): the first key of least length
ShortestKey(d) ==
    d[CHOOSE i \in DOMAIN d :
        /\ \A j \in DOMAIN d : StrLen(d[i][1]) <= StrLen(d[j][1])
        /\ \A j \in 1..(i - 1) : StrLen(d[j][1]) > StrLen(d[i][1])][1]

\* the class filter left out: every candidate is kept
ClassesListUnfiltered(piecewise_list) == piecewise_list

\* the candidates of kind 'class'
ClassesList(piecewise_list) == SelectSeq(piecewise_list, LAMBDA p : p[2].kind = "class")

\* the candidates whose name has no '<'
NoTemplatesList(piecewise_list) == SelectSeq(piecewise_list, LAMBDA p : ~HasTemplate(p[1]))

\* the disambiguation with the template rule tried before the class rule
DisambiguateTemplatesFirst(piecewise_list) ==
    LET classes_list == ClassesList(piecewise_list)
        no_templates_list == NoTemplatesList(piecewise_list)
    IN  IF Len(no_templates_list) = 1 THEN Ok(no_templates_list[1][2])
        ELSE IF Len(classes_list) = 1 THEN Ok(classes_list[1][2])
        ELSE IF no_templates_list # <<>>
             THEN Ok(DictGet(no_templates_list, ShortestKey(no_templates_list)))
             ELSE Raise("LookupError", "Could not find a match")

\* the disambiguation among several piecewise candidates
Disambiguate(piecewise_list) ==
    LET classes_list == ClassesList(piecewise_list)
        no_templates_list == NoTemplatesList(piecewise_list)
    IN  IF Len(classes_list) = 1 THEN Ok(classes_list[1][2])
        ELSE IF Len(no_templates_list) = 1 THEN Ok(no_templates_list[1][2])
        ELSE IF no_templates_list # <<>>
             THEN Ok(DictGet(no_templates_list, ShortestKey(no_templates_list)))
             ELSE Raise("LookupError", "Could not find a match")

\* SymbolMap._get_symbol_matches
get_symbol_matches(mapping, symbol) ==
    IF DictHas(mapping, symbol)
    THEN Ok(DictGet(mapping, symbol))
    ELSE LET piecewise_list == find_url_piecewise(mapping, symbol)
         IN  IF Len(piecewise_list) = 1
             THEN Ok(piecewise_list[1][2])
             ELSE Disambiguate(piecewise_list)

\* SymbolMap.__getitem__
SymbolMap_getitem(mapping, item) ==
    LET n == normalise(item)
    IN  IF ~n.ok
        THEN Raise("LookupError", "ParseException")
        ELSE LET entry == get_symbol_matches(mapping, n.symbol)
             IN  IF entry.status = "ok" /\ entry.value.type = "FunctionList"
                 THEN FunctionList_getitem(entry.value, n.arglist)
                 ELSE entry

----------------------------------------------------------------------------
(* find_url: the legacy scan over the XML document                         *)

NotFound == [found |-> FALSE, file |-> "", kind |-> ""]

\* the dict {'file': ..., 'kind': ...} find_url returns
Found(file, kind) == [found |-> TRUE, file |-> file, kind |-> kind]

\* all members of the document, in document order ('.//member')
RECURSIVE AllMembers(_)
AllMembers(d) == IF d = <<>> THEN <<>> ELSE Head(d).members \o AllMembers(Tail(d))

\* (member.findtext('anchorfile') or compound.findtext('filename')) + '#' + anchor
LegacyLink(compound, member) ==
    (IF member.anchorfile # "" THEN member.anchorfile ELSE compound.filename)
        \o "#" \o member.anchor

find_url(d, symbol) ==
    LET matches == SelectSeq(d, LAMBDA c : Text(c.name, <<>>) = symbol)
        reduced == SelectSeq(d, LAMBDA c : Len(c.name) >= 2 /\ Text(Tail(c.name), <<>>) = symbol)
        qualified == Len(symbol.symbol) >= 2
        namespace == Text(SubSeq(symbol.symbol, 1, Len(symbol.symbol) - 1), <<>>)
        endsymbol == Text(<<symbol.symbol[Len(symbol.symbol)]>>, symbol.args)
        HasMember(c) == \E i \in DOMAIN c.members : Text(c.members[i].name, <<>>) = endsymbol
        owners == SelectSeq(d, LAMBDA c : Text(c.name, <<>>) = namespace /\ HasMember(c))
        owned == SelectSeq(owners[1].members, LAMBDA m : Text(m.name, <<>>) = endsymbol)
        unqualified == SelectSeq(AllMembers(d), LAMBDA m : Text(m.name, <<>>) = symbol)
    IN  IF Len(matches) = 1 THEN Found(matches[1].filename, matches[1].kind)
        ELSE IF reduced # <<>> THEN Found(reduced[1].filename, reduced[1].kind)
        ELSE IF qualified /\ owners # <<>>
             THEN Found(LegacyLink(owners[1], owned[1]), owned[1].kind)
        ELSE IF unqualified # <<>>
             \* 'compound' is the variable the loops above left behind: the last compound
             THEN Found(LegacyLink(d[Len(d)], unqualified[1]), unqualified[1].kind)
        ELSE NotFound

----------------------------------------------------------------------------
(* The environment of the roles: tag files on disk and the configuration   *)

\* a tag file path is <<directory, basename>>
Paths == {<<"a", "x.tag">>, <<"b", "x.tag">>}

\* os.path.basename
basename(path) == path[2]

\* what ET.parse meets at a path
Statuses == {"ok", "missing", "unreadable", "corrupt"}

\* the documents the tag files hold when they can be read
DocA ==
    << [kind |-> "class", name |-> <<"Foo">>, filename |-> "classFoo.html",
        members |->
          << [kind |-> "function", name |-> <<"bar">>, anchorfile |-> "",
              anchor |-> "a1", arglist |-> <<"(", "int", ")">>],
             [kind |-> "variable", name |-> <<"count">>, anchorfile |-> "vars.html",
              anchor |-> "a2", arglist |-> <<>>] >>],
       [kind |-> "union", name |-> <<"U">>, filename |-> "unionU.html", members |-> <<>>],
       [kind |-> "file", name |-> <<"main.cpp">>, filename |-> "main_8cpp", members |-> <<>>] >>

DocB ==
    << [kind |-> "class", name |-> <<"Foo">>, filename |-> "classFoo__b.html",
        members |-> <<>>],
       [kind |-> "namespace", name |-> <<"NS">>, filename |-> "namespaceNS.html",
        members |->
          << [kind |-> "function", name |-> <<"baz">>, anchorfile |-> "",
              anchor |-> "b1", arglist |-> <<"(", "int">>] >>] >>

DocOf(path) == IF path = <<"a", "x.tag">> THEN DocA ELSE DocB

\* app.config.doxylink: role name -> (tag_filename, rootdir); a rootdir is its path tokens
RoleNames == {"rolea", "roleb"}

ConfigDoxylink(name) ==
    IF name = "rolea"
    THEN [tag_filename |-> <<"a", "x.tag">>, rootdir |-> <<"/", "docs", "a">>]
    ELSE [tag_filename |-> <<"b", "x.tag">>, rootdir |-> <<"html", "b", "/">>]

\* the parts the role is asked to resolve
Parts ==
    { Text(<<"Foo">>, <<>>), Text(<<"U">>, <<>>), Text(<<"Foo", "bar">>, <<>>),
      Text(<<"Foo", "bar">>, <<"(", " ", "int", ")">>),
      Text(<<"Foo", "bar">>, <<"(", "double", ")">>),
      Text(<<"NS", "baz">>, <<>>), Text(<<"Foo", "bar">>, <<"(", "int">>),
      Text(<<"DoesNotExist", "Nope">>, <<>>) }

\* from ..doxylink import __version__
Version == "version"

\* dict.get of a key the dict does not have
None == "None"

----------------------------------------------------------------------------
(* create_role and the cache on app.env                                    *)

NoCache == [present |-> FALSE, entries |-> <<>>]

\* {'mapping': mapping, 'mtime': os.path.getmtime(tag_filename)}: no 'version' key is
\* stored, so .get('version') of a sub-cache is None
SubCache(mapping, mtime) == [mapping |-> mapping, mtime |-> mtime, version |-> None]

\* SymbolMap.__init__
SymbolMap(tag_file) == parse_tag_file(tag_file)

\* 'Tidy up the root directory path'
TidyRootdir(rootdir) ==
    IF rootdir[Len(rootdir)] \in {"/", "\\"} THEN rootdir ELSE Append(rootdir, "/")

NoRole ==
    [created |-> FALSE, tag_filename |-> <<>>, rootdir |-> <<>>, parsed |-> FALSE,
     tag_file |-> <<>>, cache_name |-> ""]

\* the variables find_doxygen_link closes over
Closure(tag_filename, rootdir, parsed, tag_file, cache_name) ==
    [created |-> TRUE, tag_filename |-> tag_filename, rootdir |-> rootdir,
     parsed |-> parsed, tag_file |-> tag_file, cache_name |-> cache_name]

NoOutcome ==
    [op |-> "", name |-> "", read |-> "", raised |-> None, info |-> "", node |-> "",
     refuri |-> <<>>, title |-> Text(<<>>, <<>>), part |-> Text(<<>>, <<>>),
     warnings |-> <<>>]

\* the branch of the cache check create_role takes, by the message it logs
CacheBranch(c, cache_name, mtime) ==
    IF ~c.present THEN "No cache at all, rebuilding..."
    ELSE IF ~DictHas(c.entries, cache_name) THEN "Sub cache is missing, rebuilding..."
    ELSE IF DictGet(c.entries, cache_name).mtime < mtime
         THEN "Sub-cache is out of date, rebuilding..."
    ELSE IF \/ DictGet(c.entries, cache_name).version = None
            \/ DictGet(c.entries, cache_name).version # Version
         THEN "Sub-cache schema version doesn't match, rebuilding..."
    ELSE "Sub-cache is up-to-date"

Rebuilding ==
    { "No cache at all, rebuilding...", "Sub cache is missing, rebuilding...",
      "Sub-cache is out of date, rebuilding...",
      "Sub-cache schema version doesn't match, rebuilding..." }

\* the cache after the branch: every rebuilding branch stores a fresh sub-cache
CacheAfter(c, cache_name, tag_file, mtime) ==
    LET info == CacheBranch(c, cache_name, mtime)
    IN  IF info = "No cache at all, rebuilding..."
        THEN [present |-> TRUE,
              entries |-> <<<<cache_name, SubCache(SymbolMap(tag_file), mtime)>>>>]
        ELSE IF info \in Rebuilding
             THEN [c EXCEPT !.entries =
                      DictSet(@, cache_name, SubCache(SymbolMap(tag_file), mtime))]
             ELSE c

\* what ET.parse(tag_filename) does
ParseOutcome(status) ==
    IF status = "ok" THEN "ok"
    ELSE IF status = "missing" THEN "FileNotFoundError"
    ELSE IF status = "unreadable" THEN "PermissionError"
    ELSE "ParseError"

\* create_role catches FileNotFoundError only
Uncaught(read) == IF read \in {"ok", "FileNotFoundError"} THEN None ELSE read

create_role(name) ==
    LET tag_filename == ConfigDoxylink(name).tag_filename
        rootdir == TidyRootdir(ConfigDoxylink(name).rootdir)
        read == ParseOutcome(files[tag_filename].status)
        cache_name == basename(tag_filename)
        mtime == files[tag_filename].mtime
    IN  /\ cache' = IF read = "ok" THEN CacheAfter(cache, cache_name, DocOf(tag_filename), mtime)
                    ELSE cache
        /\ roles' = IF read = "ok"
                    THEN [roles EXCEPT ![name] =
                             Closure(tag_filename, rootdir, TRUE, DocOf(tag_filename), cache_name)]
                    ELSE IF read = "FileNotFoundError"
                    THEN [roles EXCEPT ![name] = Closure(tag_filename, rootdir, FALSE, <<>>, "")]
                    ELSE roles
        /\ outcome' = [NoOutcome EXCEPT
                          !.op = "create_role", !.name = name, !.read = read,
                          !.raised = Uncaught(read),
                          !.info = IF read = "ok" THEN CacheBranch(cache, cache_name, mtime) ELSE "",
                          !.warnings = IF read = "FileNotFoundError"
                                       THEN <<"Could not find tag file">> ELSE <<>>]
        /\ UNCHANGED <<files, config, doc, symmap, query, result>>

----------------------------------------------------------------------------
(* find_doxygen_link: the role callback create_role returns                *)

\* the path from the current document to the source directory (the caller's)
RelativePathToDocsrc == ".."

\* os.path.isabs(rootdir) or urllib.parse.urlparse(rootdir).scheme
IsAbsOrUrl(rootdir) == rootdir[1] \in {"/", "http:", "file:"}

FullUrl(rootdir, file) ==
    IF IsAbsOrUrl(rootdir)
    THEN rootdir \o <<file>>
    ELSE <<RelativePathToDocsrc, "/">> \o rootdir \o <<file>>

\* join(title, '()') when the link is a function and the title names no arguments
LinkTitle(title, kind, add_function_parentheses) ==
    IF kind = "function" /\ add_function_parentheses /\ normalise(title).arglist = <<>>
    THEN Text(title.symbol, title.args \o <<"(", ")">>)
    ELSE title

\* the body of find_doxygen_link for text = part (no explicit title)
RoleResult(role, c, cfg, part) ==
    LET base == [NoOutcome EXCEPT !.op = "find_doxygen_link", !.part = part, !.title = part]
        legacy == find_url(role.tag_file, part)
        lookup == SymbolMap_getitem(DictGet(c.entries, role.cache_name).mapping, part)
        warned == IF lookup.status = "LookupError" THEN <<"Error while parsing">> ELSE <<>>
    IN  IF ~role.parsed
        THEN [base EXCEPT !.node = "inline",
                          !.warnings = <<"Could not find match because tag file not found">>]
        ELSE IF lookup.status = "ok"
        THEN [base EXCEPT !.node = "reference",
                          !.refuri = FullUrl(role.rootdir, lookup.value.file),
                          !.title = LinkTitle(part, lookup.value.kind, cfg.add_function_parentheses)]
        ELSE IF legacy.found
        \* url is still the dict of find_url: url.file is an AttributeError
        THEN [base EXCEPT !.raised = "AttributeError"]
        ELSE [base EXCEPT !.node = "inline",
                          !.warnings = Append(warned, "Could not find match in tag file")]

find_doxygen_link(name, text) ==
    /\ roles[name].created
    /\ outcome' = [RoleResult(roles[name], cache, config, text) EXCEPT !.name = name]
    /\ UNCHANGED <<files, cache, roles, config, doc, symmap, query, result>>

----------------------------------------------------------------------------
(* The environment: tag files are rewritten, removed, damaged              *)

TouchTagFile(path) ==
    /\ files[path].mtime < MaxMtime
    /\ files' = [files EXCEPT ![path].mtime = @ + 1]
    /\ UNCHANGED <<cache, roles, config, outcome, doc, symmap, query, result>>

SetTagFileStatus(path, status) ==
    /\ files[path].status # status
    /\ files' = [files EXCEPT ![path].status = status]
    /\ UNCHANGED <<cache, roles, config, outcome, doc, symmap, query, result>>

----------------------------------------------------------------------------
(* The documentation build: roles are created and used                     *)

NoSymbolMap == [built |-> FALSE, mapping |-> <<>>]

NoResult == [status |-> "", value |-> NoValue, msg |-> ""]

Init ==
    /\ files \in [Paths -> [status : Statuses, mtime : {1}]]
    /\ cache = NoCache
    /\ roles = [n \in RoleNames |-> NoRole]
    /\ config \in [add_function_parentheses : BOOLEAN]
    /\ outcome = NoOutcome
    /\ doc = <<>>
    /\ symmap = NoSymbolMap
    /\ query = Text(<<>>, <<>>)
    /\ result = NoResult

Next ==
    \/ \E name \in RoleNames : create_role(name)
    \/ \E name \in RoleNames, text \in Parts : find_doxygen_link(name, text)
    \/ \E path \in Paths : TouchTagFile(path)
    \/ \E path \in Paths, status \in Statuses : SetTagFileStatus(path, status)

Spec == Init /\ [][Next]_vars

----------------------------------------------------------------------------
(* The resolver on its own: SymbolMap(doc) for a generated tag document,   *)
(* then symmap[item] for generated items.  Two families of documents are   *)
(* generated: one rich in compounds (names that match piecewise, classes,  *)
(* a templated name, a constructor), one rich in members (overloads,       *)
(* argument-list texts, a compound kind parse_tag_file skips).             *)

\* the i-th record of a document has its own file name or anchor
FileNames == <<"c1.html", "c2.html", "c3.html", "c4.html", "c5.html">>

Anchors == <<"a1", "a2", "a3", "a4", "a5">>

CompoundRecord(kind, name) == [rec |-> "compound", kind |-> kind, name |-> name, arglist |-> <<>>]

MemberRecord(kind, name, arglist) == [rec |-> "member", kind |-> kind, name |-> name, arglist |-> arglist]

\* argument-list texts: "(int)", "( int )", "(double)" and the unbalanced "(int"
ArgInt == <<"(", "int", ")">>

ArgIntSpaced == <<"(", " ", "int", " ", ")">>

ArgDouble == <<"(", "double", ")">>

ArgUnbalanced == <<"(", "int">>

\* the compound-rich family: classes and namespaces under names that match each
\* other piecewise, with a constructor (with and without <arglist>) and a variable
ResolveCompounds ==
    {CompoundRecord(kind, name) :
        kind \in {"class", "namespace"},
        name \in {<<"Foo">>, <<"NS">>, <<"NS", "Foo">>, <<"Ab", "Foo">>, <<"Ab<T>", "Foo">>,
                  <<"Nope">>}}

ResolveMembers ==
    {MemberRecord("function", <<"Foo">>, <<>>), MemberRecord("function", <<"Foo">>, ArgIntSpaced),
     MemberRecord("variable", <<"bar">>, <<>>)}

\* the member-rich family: a class and a same-named-as-a-member compound, kept or
\* skipped ('union'), with functions and variables of every argument-list text
OverloadCompounds ==
    {CompoundRecord(kind, name) :
        kind \in {"class", "union"}, name \in {<<"Foo">>, <<"Foo", "bar">>}}

OverloadMembers ==
    {MemberRecord("function", name, arglist) :
        name \in {<<"Foo">>, <<"bar">>},
        arglist \in {<<>>, ArgInt, ArgIntSpaced, ArgDouble, ArgUnbalanced}}
    \cup {MemberRecord("variable", name, arglist) :
        name \in {<<"Foo">>, <<"bar">>}, arglist \in {<<>>, ArgInt}}

\* the records of a document in document order: a compound, then its members
FlatDocs(compounds, members, n) ==
    {f \in [1..n -> compounds \cup members] : f[1].rec = "compound"}

RECURSIVE Nest(_, _, _)
Nest(flat, i, acc) ==
    IF i > Len(flat)
    THEN acc
    ELSE IF flat[i].rec = "compound"
         THEN Nest(flat, i + 1,
                   Append(acc, [kind |-> flat[i].kind, name |-> flat[i].name,
                                filename |-> FileNames[i], members |-> <<>>]))
         ELSE Nest(flat, i + 1,
                   [acc EXCEPT ![Len(acc)].members =
                       Append(@, [kind |-> flat[i].kind, name |-> flat[i].name,
                                  anchorfile |-> "", anchor |-> Anchors[i],
                                  arglist |-> flat[i].arglist])])

TagDocs(compounds, members) ==
    {Nest(f, 1, <<>>) : f \in UNION {FlatDocs(compounds, members, n) : n \in 1..MaxRecords}}

QuerySymbols ==
    {<<"Foo">>, <<"bar">>, <<"Foo", "Foo">>, <<"Foo", "bar">>, <<"NS", "Foo">>,
     <<"DoesNotExist", "Nope">>}

QueryArgTexts == {<<>>, <<"(", " ", "int", ")">>, ArgDouble, ArgUnbalanced}

Items == {Text(s, a) : s \in QuerySymbols, a \in QueryArgTexts}

\* the state before SymbolMap(doc), whatever the document
Unparsed ==
    /\ symmap = NoSymbolMap
    /\ query = Text(<<>>, <<>>)
    /\ result = NoResult
    /\ files = [p \in Paths |-> [status |-> "missing", mtime |-> 1]]
    /\ cache = NoCache
    /\ roles = [n \in RoleNames |-> NoRole]
    /\ config = [add_function_parentheses |-> TRUE]
    /\ outcome = NoOutcome

InitResolve == doc \in TagDocs(ResolveCompounds, ResolveMembers) /\ Unparsed

InitOverload == doc \in TagDocs(OverloadCompounds, OverloadMembers) /\ Unparsed

\* mapping = SymbolMap(tag_file)
SymbolMapInit ==
    /\ ~symmap.built
    /\ symmap' = [built |-> TRUE, mapping |-> SymbolMap(doc)]
    /\ UNCHANGED <<files, cache, roles, config, outcome, doc, query, result>>

\* mapping[item].  A behaviour asks one item: the lookup reads symmap and changes
\* nothing, so a later item is answered as it would be if it were asked first
GetItem(item) ==
    /\ symmap.built
    /\ result = NoResult
    /\ query' = item
    /\ result' = SymbolMap_getitem(symmap.mapping, item)
    /\ UNCHANGED <<files, cache, roles, config, outcome, doc, symmap>>

NextSymbolMap ==
    \/ SymbolMapInit
    \/ \E item \in Items : GetItem(item)

SpecResolve == InitResolve /\ [][NextSymbolMap]_vars

SpecOverload == InitOverload /\ [][NextSymbolMap]_vars

----------------------------------------------------------------------------
(* What the properties below speak about                                   *)

\* an item has been asked of the SymbolMap
Asked == symmap.built /\ result # NoResult

\* the registered qualified names
Keys == DictKeys(symmap.mapping)

Registered(k) == DictGet(symmap.mapping, k)

\* s is the trailing part of t
IsSuffix(s, t) == Len(s) <= Len(t) /\ SubSeq(t, Len(t) - Len(s) + 1, Len(t)) = s

\* two names match piecewise: one is the trailing part of the other
Matches(q, k) == IsSuffix(q, k) \/ IsSuffix(k, q)

Candidates(q) == {k \in Keys : Matches(q, k)}

ClassCandidates(q) == {k \in Candidates(q) : Registered(k).kind = "class"}

\* the member records of the kept compounds, in tag-file order
RECURSIVE KeptMembers(_)
KeptMembers(d) ==
    IF d = <<>> THEN <<>>
    ELSE (IF Head(d).kind \in CompoundKinds
          THEN [i \in DOMAIN Head(d).members |->
                   [symbol |-> Head(d).name \o Head(d).members[i].name,
                    kind |-> Head(d).members[i].kind,
                    arglist |-> Head(d).members[i].arglist,
                    file |-> MemberLink(CompoundFilename(Head(d)), Head(d).members[i])]]
          ELSE <<>>) \o KeptMembers(Tail(d))

OverloadBearing(m) == m.arglist # <<>> /\ m.kind \notin NonOverloadKinds

\* the overload registrations of a name in tag-file order: [arglist, file], the
\* argument list normalised
Registrations(d, k) ==
    LET bearing == SelectSeq(KeptMembers(d),
                             LAMBDA m : /\ m.symbol = k
                                        /\ OverloadBearing(m)
                                        /\ normalise(Text(k, m.arglist)).ok)
    IN  [i \in DOMAIN bearing |->
            [arglist |-> normalise(Text(k, bearing[i].arglist)).arglist,
             file |-> bearing[i].file]]

\* the file of the last registration with the argument list
LastFile(regs, arglist) ==
    regs[CHOOSE i \in DOMAIN regs :
            /\ regs[i].arglist = arglist
            /\ \A j \in DOMAIN regs : regs[j].arglist = arglist => j <= i].file

\* every destination the tag file gives for a name
Destinations(d, k) ==
    {CompoundFilename(d[i]) : i \in {j \in DOMAIN d : d[j].kind \in CompoundKinds /\ d[j].name = k}}
    \cup {KeptMembers(d)[i].file : i \in {j \in DOMAIN KeptMembers(d) : KeptMembers(d)[j].symbol = k}}

----------------------------------------------------------------------------
(* C3                                                                      *)

NopeSymbol == <<"DoesNotExist", "Nope">>

AskedNope == Asked /\ query = Text(NopeSymbol, <<>>)

\* C3 as stated: whenever DoesNotExist::Nope is not a registered name, looking up
\* DoesNotExist::Nope fails with a LookupError
C3_Unregistered_Fails ==
    (AskedNope /\ NopeSymbol \notin Keys) => result.status = "LookupError"

\* C3 amended: whenever no registered name matches DoesNotExist::Nope piecewise
\* (none is Nope, DoesNotExist::Nope or ends in ::DoesNotExist::Nope), looking up
\* DoesNotExist::Nope fails with the LookupError 'Could not find a match'
C3_Unmatched_Fails ==
    (AskedNope /\ Candidates(NopeSymbol) = {})
        => result = Raise("LookupError", "Could not find a match")

C3_Witness ==
    /\ AskedNope
    /\ Keys # {}
    /\ Candidates(NopeSymbol) = {}
    /\ result.status = "LookupError"

----------------------------------------------------------------------------
(* C7                                                                      *)

\* the key of the constructor of the class registered under k
ConstructorKey(k) == k \o <<k[Len(k)]>>

IsFunction(v) == v.type = "FunctionList" \/ v.kind = "function"

\* the query matches the class k and its constructor, and no other class
ClassAndConstructorMatch(q, k) ==
    /\ k \in Keys
    /\ Registered(k).kind = "class"
    /\ ConstructorKey(k) \in Keys
    /\ IsFunction(Registered(ConstructorKey(k)))
    /\ Matches(q, k)
    /\ Matches(q, ConstructorKey(k))
    /\ ClassCandidates(q) = {k}

\* C7 as stated: a query that matches a class and its constructor, and no other
\* class, gets the class Entry
C7_Class_Wins ==
    (Asked /\ normalise(query).ok)
        => \A k \in Keys :
              ClassAndConstructorMatch(query.symbol, k) => result = Ok(Registered(k))

\* C7 amended: ... gets the class Entry, provided the query is the class's key or
\* is no registered key itself
C7_Class_Wins_Unless_Exact ==
    (Asked /\ normalise(query).ok)
        => \A k \in Keys :
              (/\ ClassAndConstructorMatch(query.symbol, k)
               /\ (query.symbol = k \/ query.symbol \notin Keys))
                  => result = Ok(Registered(k))

C7_Witness ==
    /\ Asked
    /\ query.symbol \notin Keys
    /\ \E k \in Keys :
          /\ ClassAndConstructorMatch(query.symbol, k)
          /\ Candidates(query.symbol) # {k, ConstructorKey(k)}
          /\ result = Ok(Registered(k))

----------------------------------------------------------------------------
(* C10                                                                     *)

Ambiguous(q) == q \notin Keys /\ Cardinality(Candidates(q)) > 1

\* C10 as stated: an ambiguous query with at least one class candidate gets one of
\* the class candidates
C10_Some_Class_Wins ==
    (Asked /\ normalise(query).ok /\ Ambiguous(query.symbol)
           /\ ClassCandidates(query.symbol) # {})
        => \E k \in ClassCandidates(query.symbol) : result = Ok(Registered(k))

\* C10 amended: an ambiguous query with exactly one class candidate gets that
\* class candidate
C10_Only_Class_Wins ==
    (Asked /\ normalise(query).ok /\ Ambiguous(query.symbol))
        => \A k \in Keys :
              ClassCandidates(query.symbol) = {k} => result = Ok(Registered(k))

C10_Witness ==
    /\ Asked
    /\ Ambiguous(query.symbol)
    /\ \E k \in Keys :
          /\ ClassCandidates(query.symbol) = {k}
          /\ HasTemplate(k)
          /\ result = Ok(Registered(k))

----------------------------------------------------------------------------
(* C8                                                                      *)

IsProperSuffix(s, t) == IsSuffix(s, t) /\ Len(s) < Len(t)

----------------------------------------------------------------------------
(* C4                                                                      *)

\* the symbol of the query resolves to the FunctionList registered under k
ResolvesToOverloadSet(k) ==
    /\ normalise(query).ok
    /\ k \in Keys
    /\ Registered(k).type = "FunctionList"
    /\ get_symbol_matches(symmap.mapping, query.symbol) = Ok(Registered(k))

AskedArglist == normalise(query).arglist

\* C4 as stated: with an argument list, the file registered for exactly that
\* argument list, or a LookupError when no overload has it; without one, the file
\* of the overload registered first for the name
C4_First_Registered ==
    Asked => \A k \in Keys :
        ResolvesToOverloadSet(k) =>
            LET regs == Registrations(doc, k)
                same == {i \in DOMAIN regs : regs[i].arglist = AskedArglist}
            IN  IF AskedArglist = <<>>
                THEN result = Ok(Entry("function", regs[1].file))
                ELSE IF same = {}
                     THEN result.status = "LookupError"
                     ELSE /\ result.status = "ok"
                          /\ result.value.kind = "function"
                          /\ result.value.file \in {regs[i].file : i \in same}

\* C4 amended: with an argument list, the file of the last registration with exactly
\* that argument list, or a LookupError when no overload has it; without one, the
\* file of the last registration that has the argument list registered first for
\* the name
C4_First_Arglist_Last_File ==
    Asked => \A k \in Keys :
        ResolvesToOverloadSet(k) =>
            LET regs == Registrations(doc, k)
                same == {i \in DOMAIN regs : regs[i].arglist = AskedArglist}
            IN  IF AskedArglist = <<>>
                THEN result = Ok(Entry("function", LastFile(regs, regs[1].arglist)))
                ELSE IF same = {}
                     THEN result = Raise("LookupError", "Argument list match not found")
                     ELSE result = Ok(Entry("function", LastFile(regs, AskedArglist)))

\* no argument list asked, two overloads with different argument lists
C4_Witness ==
    /\ Asked
    /\ query.args = <<>>
    /\ \E k \in Keys :
          /\ ResolvesToOverloadSet(k)
          /\ Len(Registrations(doc, k)) = 2
          /\ Registrations(doc, k)[1].arglist # Registrations(doc, k)[2].arglist
          /\ result = Ok(Entry("function", Registrations(doc, k)[1].file))

----------------------------------------------------------------------------
(* C9                                                                      *)

\* every member record of the document, whatever its compound
RECURSIVE MemberRecordsOf(_)
MemberRecordsOf(d) ==
    IF d = <<>> THEN <<>>
    ELSE [i \in DOMAIN Head(d).members |->
             [symbol |-> Head(d).name \o Head(d).members[i].name,
              kind |-> Head(d).members[i].kind,
              arglist |-> Head(d).members[i].arglist]] \o MemberRecordsOf(Tail(d))

\* the names that have a member record with argument-list text and an overload kind
OverloadNames(d) ==
    {MemberRecordsOf(d)[i].symbol :
        i \in {j \in DOMAIN MemberRecordsOf(d) : OverloadBearing(MemberRecordsOf(d)[j])}}

MapsToOverloadSet(k) == k \in Keys /\ Registered(k).type = "FunctionList"

\* C9 as stated: after parse_tag_file every name with a member record that has
\* argument-list text and a kind outside {variable, typedef, enumeration} maps to a
\* FunctionList
C9_Overload_Names_Are_Sets ==
    symmap.built => \A k \in OverloadNames(doc) : MapsToOverloadSet(k)

\* C9 amended: ... every name with such a member record in a compound of a kept kind
\* and with an argument list that normalises maps to a FunctionList
C9_Parsed_Overload_Names_Are_Sets ==
    symmap.built =>
        \A k \in OverloadNames(doc) : Registrations(doc, k) # <<>> => MapsToOverloadSet(k)

\* a single overload under a name a compound is registered with as well
C9_Witness ==
    /\ symmap.built
    /\ \E i \in DOMAIN doc :
          /\ doc[i].kind \in CompoundKinds
          /\ Len(Registrations(doc, doc[i].name)) = 1
          /\ MapsToOverloadSet(doc[i].name)
          /\ Len(Registered(doc[i].name).arglist) = 1

----------------------------------------------------------------------------
(* C1                                                                      *)

\* the step is a call of create_role for the role that parsed its tag file
CreatedStep(name) ==
    /\ files' = files
    /\ <<cache, roles, outcome>> # <<cache', roles', outcome'>>
    /\ outcome'.op = "create_role"
    /\ outcome'.name = name

\* C1: when the tag file of a role already has a sub-cache, create_role rebuilds the
\* SymbolMap if and only if the file's mtime is greater than the mtime stored in the
\* sub-cache; with the mtime unchanged the sub-cache is kept as it is
C1_Rebuild_Iff_Newer ==
    [][\A name \in RoleNames :
          LET tag_filename == ConfigDoxylink(name).tag_filename
              cache_name == basename(tag_filename)
          IN  (/\ CreatedStep(name)
               /\ outcome'.read = "ok"
               /\ cache.present
               /\ DictHas(cache.entries, cache_name))
                  => /\ (outcome'.info \in Rebuilding)
                         <=> (DictGet(cache.entries, cache_name).mtime < files[tag_filename].mtime)
                     /\ (DictGet(cache.entries, cache_name).mtime >= files[tag_filename].mtime)
                         => cache' = cache]_vars

----------------------------------------------------------------------------
(* C2                                                                      *)

\* C2: a lookup through the role callback never raises: it returns a link, or the
\* unlinked title with at least one warning
C2_Lookup_Never_Raises ==
    outcome.op = "find_doxygen_link"
        => /\ outcome.raised = None
           /\ \/ outcome.node = "reference"
              \/ outcome.node = "inline" /\ Len(outcome.warnings) >= 1

----------------------------------------------------------------------------
(* C5                                                                      *)

\* what the SymbolMap parsed from the role's own tag file answers
OwnAnswer(role, part) == SymbolMap_getitem(SymbolMap(DocOf(role.tag_filename)), part)

\* C5: a lookup through the role created for a tag file is resolved against the
\* SymbolMap parsed from that tag file
C5_Resolved_Against_Own_Tag_File ==
    (/\ outcome.op = "find_doxygen_link"
     /\ outcome.raised = None
     /\ roles[outcome.name].parsed)
        => IF OwnAnswer(roles[outcome.name], outcome.part).status = "ok"
           THEN /\ outcome.node = "reference"
                /\ outcome.refuri =
                       FullUrl(roles[outcome.name].rootdir,
                               OwnAnswer(roles[outcome.name], outcome.part).value.file)
           ELSE outcome.node = "inline"

----------------------------------------------------------------------------
(* C6                                                                      *)

\* the step is a lookup through the role
LookupStep(name) ==
    /\ outcome' # outcome
    /\ outcome'.op = "find_doxygen_link"
    /\ outcome'.name = name

\* C6: when the tag file cannot be found or read, create_role does not raise and
\* leaves the cache as it is, and every later lookup through the role returns the
\* unlinked title with a warning and does not raise
C6_Unavailable_Tag_File ==
    [][\A name \in RoleNames :
          /\ (CreatedStep(name) /\ files[ConfigDoxylink(name).tag_filename].status # "ok")
                => /\ outcome'.raised = None
                   /\ cache' = cache
                   /\ roles'[name].created
                   /\ ~roles'[name].parsed
          /\ (LookupStep(name) /\ ~roles[name].parsed)
                => /\ outcome'.raised = None
                   /\ outcome'.node = "inline"
                   /\ Len(outcome'.warnings) >= 1]_vars

====
